---- MODULE Spec2Model ----
(***************************************************************************)
(* Model of the Brusselator FFT analysis pipeline                          *)
(* (Tutorial/brusselator/src/analysis/fft3d_calc.cpp, function main).      *)
(*                                                                         *)
(* The program is SPMD: every process of the pipeline's communicator       *)
(* `comm` executes the same statements of main, and every call that        *)
(* decides the control flow (the reader's BeginStep, the collectives) is   *)
(* collective over the group.  The model therefore advances all ranks of   *)
(* the group together, one block of statements per action, and keeps the   *)
(* rank-dependent variables of main as functions of the world rank.        *)
(***************************************************************************)
EXTENDS Integers, Sequences, FiniteSets, TLC

(***************************************************************************)
(* Bounds of the model.                                                    *)
(***************************************************************************)
MaxWorld   == 2   \* processes in MPI_COMM_WORLD
MaxD0      == 3   \* global extent along dimension 0
MaxD1      == 2   \* global extent along dimension 1
MaxD2      == 2   \* global extent along dimension 2
MaxPad     == 1   \* extra elements the transform library may require
MaxForeign == 1   \* value a process outside the pipeline adds to a world scan
MaxBegin   == 3   \* non-terminal results the input stream returns

\* Bounds of the runs in which the slab geometry is examined: a larger world
\* and dimension 0, and a stream of a single step.
GeoWorld   == 3
GeoD0      == 4
GeoBegin   == 1

Min(a, b) == IF a < b THEN a ELSE b

RECURSIVE SumTo(_, _)
\* f[0] + ... + f[n], the inclusive prefix sum MPI_Scan(MPI_SUM) delivers.
SumTo(f, n) == IF n < 0 THEN 0 ELSE f[n] + SumTo(f, n - 1)

(***************************************************************************)
(* adios2::StepStatus                                                      *)
(***************************************************************************)
StepStatus == {"OK", "NotReady", "EndOfStream", "OtherError"}

\* Names of the variables defined on the writer's IO object.
FftNames  == {"u_fft_real", "u_fft_imag", "v_fft_real", "v_fft_imag"}
PassNames == {"u_real", "u_imag", "v_real", "v_imag"}
OutNames  == FftNames \cup PassNames

VARIABLES
    env,             \* what the run is started with and what the libraries answer
    pc,              \* position in main
    step_num, firstStep, read_status, output_fft_only,
    shape_u_real, shape_v_real,
    starts_u, counts_u, starts_v, counts_v,
    alloc_local, local_n0, in_buf, out_buf, plan, x_dim, x_off,
    mem,             \* what the data vectors and the workspace hold
    writer_vars,     \* variables defined on writer_io, per name
    reader, writer,  \* state of the two engines
    log              \* what the run has done so far (call counts, messages)

ctrlVars == <<step_num, firstStep, read_status, output_fft_only>>
selVars  == <<shape_u_real, shape_v_real, starts_u, counts_u, starts_v, counts_v>>
fftVars  == <<alloc_local, local_n0, in_buf, out_buf, plan, x_dim, x_off>>
ioVars   == <<writer_vars, reader, writer>>
vars     == <<env, pc, ctrlVars, selVars, fftVars, mem, ioVars, log>>

(***************************************************************************)
(* The process groups.  MPI_Comm_split(MPI_COMM_WORLD, color = 2, key =     *)
(* wrank) puts the processes that run this program into one communicator,  *)
(* ranked in the order of their world ranks.                               *)
(***************************************************************************)
WorldRanks == 0 .. (env.world_size - 1)
Members    == env.members
comm_size  == Cardinality(Members)
CommRank(w) == Cardinality({v \in Members : v < w})

(***************************************************************************)
(* Decomposition Calculator, get_starts_counts_3d_decomp of                *)
(* decompose_utils.h.  The header is not among the sources; this is the    *)
(* contract the specification gives for it: a balanced split of dimension  *)
(* 0 with the remainder given to the low-numbered ranks, dimensions 1 and  *)
(* 2 owned whole.                                                          *)
(***************************************************************************)
DecompCount(d0, P, r) == (d0 \div P) + (IF r < d0 % P THEN 1 ELSE 0)

DecompStart(d0, P, r) == r * (d0 \div P) + Min(r, d0 % P)

get_starts_counts_3d_decomp(d0, d1, d2, P, r) ==
    [starts |-> <<DecompStart(d0, P, r), 0, 0>>,
     counts |-> <<DecompCount(d0, P, r), d1, d2>>]

(***************************************************************************)
(* fftw_mpi_local_size_3d(n0, n1, n2, MPI_COMM_WORLD, &local_n0, ...):     *)
(* the library splits dimension 0 over the communicator it is given, here  *)
(* the WORLD communicator, in blocks of ceil(n0 / size) rows, and returns  *)
(* the number of complex elements to allocate, which is at least           *)
(* local_n0*n1*n2 and may be greater.                                      *)
(***************************************************************************)
FftwBlock(n0, np) == (n0 + np - 1) \div np

FftwLocalN0(n0, np, r) ==
    LET b == FftwBlock(n0, np)
    IN  IF r * b >= n0 THEN 0 ELSE Min(b, n0 - r * b)

FftwCommSize == env.world_size

fftw_mpi_local_size_3d(n0, n1, n2, w) ==
    [local_n0    |-> FftwLocalN0(n0, FftwCommSize, w),
     alloc_local |-> FftwLocalN0(n0, FftwCommSize, w) * n1 * n2 + env.pad[w]]

\* if (alloc_local != (shape[0]*shape[1]*shape[2])/comm_size)
ReconcileMismatch(alloc, shape) ==
    alloc # (shape[1] * shape[2] * shape[3]) \div comm_size

\* x_dim = alloc_local/shape_u_real[1]/shape_u_real[2]
XDim(alloc, shape) == (alloc \div shape[2]) \div shape[3]

(***************************************************************************)
(* MPI_Scan(&x_dim, &x_off, 1, MPI_LONG, MPI_SUM, MPI_COMM_WORLD) followed *)
(* by x_off = x_off - x_dim.  Every process of the communicator the scan   *)
(* is given contributes: the pipeline's ranks their x_dim, a process of    *)
(* the world that is not in the pipeline whatever it passes to the scan.   *)
(***************************************************************************)
ScanComm == WorldRanks

ScanContribution(xd) ==
    [v \in WorldRanks |-> IF v \in ScanComm
                          THEN (IF v \in Members THEN xd[v] ELSE env.foreign)
                          ELSE 0]

XOff(xd, w) == SumTo(ScanContribution(xd), w) - xd[w]

\* The collectives over MPI_COMM_WORLD complete only if every process of the
\* world takes part in them.
WorldCollectiveCompletes == (Members = WorldRanks) \/ env.foreignJoins

(***************************************************************************)
(* The runs considered: a world of up to MaxWorld processes of which a     *)
(* non-empty subset runs this program, a command line, the shape of the    *)
(* fields in the input stream (the same for the four fields, with at       *)
(* least one row of dimension 0 per pipeline rank), and the answers of     *)
(* the transform library and of the processes outside the pipeline.        *)
(***************************************************************************)
ShapesUpTo(maxD0) == (1 .. maxD0) \X (1 .. MaxD1) \X (1 .. MaxD2)

Shapes == ShapesUpTo(MaxD0)

EnvOf(W, m, ac, a3, sh, pd, fj, fv, nres) ==
    [world_size |-> W, members |-> m, argc |-> ac, argv3 |-> a3, shape |-> sh,
     pad |-> pd, foreignJoins |-> fj, foreign |-> fv, results |-> nres]

InitEnvWithin(maxW, maxD0, nres) ==
    \E W \in 1 .. maxW, sh \in ShapesUpTo(maxD0), ac \in 2 .. 4 :
    \E m \in (SUBSET (0 .. (W - 1))) \ {{}} :
    \E a3 \in (IF ac >= 4 THEN {"0", "1"} ELSE {""}) :
    \E pd \in [m -> 0 .. MaxPad] :
    \E fj \in (IF m = 0 .. (W - 1) THEN {TRUE} ELSE BOOLEAN) :
    \E fv \in (IF fj /\ m # 0 .. (W - 1) THEN 0 .. MaxForeign ELSE {0}) :
        /\ Cardinality(m) <= sh[1]
        /\ env = EnvOf(W, m, ac, a3, sh, pd, fj, fv, nres)

InitEnv == InitEnvWithin(MaxWorld, MaxD0, MaxBegin)

InitEnvGeom == InitEnvWithin(GeoWorld, GeoD0, GeoBegin)

Zero3 == <<0, 0, 0>>

\* What a buffer holds: the field family and step it comes from, and whether
\* it is the field as read or its transform.
NoTag == [family |-> "none", step |-> 0, form |-> "none"]

FieldTag(f, n) == [family |-> f, step |-> n, form |-> "field"]

\* fftw_execute(plan): `out` becomes the forward transform of `in`
Transformed(t) == [t EXCEPT !.form = IF t.form = "field" THEN "fft" ELSE "invalid"]

InitProgram ==
    /\ pc = "start"
    /\ step_num = 0
    /\ firstStep = TRUE
    /\ read_status = "none"
    /\ output_fft_only = TRUE
    /\ shape_u_real = <<>>
    /\ shape_v_real = <<>>
    /\ starts_u = [w \in Members |-> Zero3]
    /\ counts_u = [w \in Members |-> Zero3]
    /\ starts_v = [w \in Members |-> Zero3]
    /\ counts_v = [w \in Members |-> Zero3]
    /\ alloc_local = [w \in Members |-> 0]
    /\ local_n0 = [w \in Members |-> 0]
    /\ in_buf = [w \in Members |-> "uninit"]
    /\ out_buf = [w \in Members |-> "uninit"]
    /\ plan = "uninit"
    /\ x_dim = [w \in Members |-> 0]
    /\ x_off = [w \in Members |-> 0]
    /\ mem = [u_data |-> NoTag, v_data |-> NoTag, in |-> NoTag, out |-> NoTag,
              u_fft |-> NoTag, v_fft |-> NoTag,
              u_len |-> [w \in Members |-> 0], v_len |-> [w \in Members |-> 0],
              fft_cap |-> [w \in Members |-> 0],
              fft_len |-> [w \in Members |-> 0]]
    /\ writer_vars = [n \in OutNames |->
                        [defs  |-> 0,
                         shape |-> <<>>,
                         start |-> [w \in Members |-> <<>>],
                         count |-> [w \in Members |-> <<>>]]]
    /\ reader = "unopened"
    /\ writer = "unopened"
    /\ log = [sleeps |-> 0, nBegin |-> 0, nOK |-> 0, nNotReady |-> 0, steps |-> <<>>,
              nGet |-> 0, nREnd |-> 0, nStageIn |-> 0, nExec |-> 0,
              nStageOut |-> 0, nWBegin |-> 0, puts |-> {}, stepPuts |-> <<>>,
              nWEnd |-> 0, allocAt |-> <<>>, planAt |-> <<>>, defineAt |-> <<>>,
              mismatch |-> {},
              wsteps |-> <<>>, usage |-> FALSE, freed |-> 0, exit |-> "none"]

Init == InitEnv /\ InitProgram

InitGeom == InitEnvGeom /\ InitProgram

(***************************************************************************)
(* main, lines 59-117: the argument check, the passthrough flag and the    *)
(* opening of the two engines.                                             *)
(***************************************************************************)
\* if (argc < 3) { ...; MPI_Abort(comm, -1); }
UsageAbort ==
    /\ pc = "start"
    /\ env.argc < 3
    /\ pc' = "aborted"
    /\ log' = [log EXCEPT !.usage = TRUE, !.exit = "abort"]
    /\ UNCHANGED <<env, ctrlVars, selVars, fftVars, mem, ioVars>>

\* output_fft_only stays true unless argv[3] is the literal "0"
OutputFftOnly(argc, argv3) == ~(argc >= 4 /\ argv3 = "0")

Setup ==
    /\ pc = "start"
    /\ env.argc >= 3
    /\ output_fft_only' = OutputFftOnly(env.argc, env.argv3)
    /\ reader' = "idle"
    /\ writer' = "idle"
    /\ pc' = "begin"
    /\ UNCHANGED <<env, step_num, firstStep, read_status, selVars, fftVars,
                   mem, writer_vars, log>>

(***************************************************************************)
(* The step loop, lines 120-137.                                           *)
(***************************************************************************)
\* The stream returns at most env.results results that are not terminal.
StreamMayReturn(s) ==
    s \in {"OK", "NotReady"} => log.nOK + log.nNotReady < env.results

\* read_status = reader_engine.BeginStep(NextAvailable, 10.0f)
ReaderBeginStep ==
    /\ pc = "begin"
    /\ \E s \in StepStatus :
        /\ StreamMayReturn(s)
        /\ read_status' = s
        /\ reader' = IF s = "OK" THEN "active" ELSE reader
        /\ log' = [log EXCEPT !.nBegin = @ + 1,
                              !.nOK = IF s = "OK" THEN @ + 1 ELSE @,
                              !.nNotReady = IF s = "NotReady" THEN @ + 1 ELSE @]
    /\ pc' = "status"
    /\ UNCHANGED <<env, step_num, firstStep, output_fft_only, selVars, fftVars,
                   mem, writer_vars, writer>>

AfterNotReady_NoContinue == "inquire"

AfterNotReady_GiveUp == "close"

\* if (read_status == NotReady) { sleep_for(1000 ms); continue; }
AfterNotReady == "begin"

Backoff ==
    /\ pc = "status"
    /\ read_status = "NotReady"
    /\ log' = [log EXCEPT !.sleeps = @ + 1]
    /\ pc' = AfterNotReady
    /\ UNCHANGED <<env, ctrlVars, selVars, fftVars, mem, ioVars>>

\* else if (read_status != OK) { break; }
IsTerminal(s) == s # "NotReady" /\ s # "OK"

Break ==
    /\ pc = "status"
    /\ IsTerminal(read_status)
    /\ pc' = "close"
    /\ UNCHANGED <<env, ctrlVars, selVars, fftVars, mem, ioVars, log>>

NextStepNum_Skip(n) == n + 2

\* step_num ++; the step number is printed by rank 0
NextStepNum(n) == n + 1

AdvanceStep ==
    /\ pc = "status"
    /\ read_status = "OK"
    /\ step_num' = NextStepNum(step_num)
    /\ log' = [log EXCEPT !.steps = Append(@, step_num')]
    /\ pc' = "inquire"
    /\ UNCHANGED <<env, firstStep, read_status, output_fft_only, selVars,
                   fftVars, mem, ioVars>>

(***************************************************************************)
(* Lines 143-169: inquire the four input variables, take their shapes,     *)
(* compute this rank's slab for the u and the v family and select it.      *)
(***************************************************************************)
SlabOf_WorldRank(shape, w) ==
    get_starts_counts_3d_decomp(shape[1], shape[2], shape[3], comm_size, w)

SlabOf(shape, w) ==
    get_starts_counts_3d_decomp(shape[1], shape[2], shape[3], comm_size, CommRank(w))

InquireAndSelect ==
    /\ pc = "inquire"
    /\ shape_u_real' = env.shape
    /\ shape_v_real' = env.shape
    /\ starts_u' = [w \in Members |-> SlabOf(shape_u_real', w).starts]
    /\ counts_u' = [w \in Members |-> SlabOf(shape_u_real', w).counts]
    /\ starts_v' = [w \in Members |-> SlabOf(shape_v_real', w).starts]
    /\ counts_v' = [w \in Members |-> SlabOf(shape_v_real', w).counts]
    /\ pc' = IF firstStep THEN "first" ELSE "read"
    /\ UNCHANGED <<env, ctrlVars, fftVars, mem, ioVars, log>>

(***************************************************************************)
(* Lines 172-242: the first-step block.                                    *)
(***************************************************************************)
\* Lines 173-185: the local size, the two workspace allocations (either may
\* return NULL on some rank) and the reconciliation check, which prints an
\* error message and goes on.
AllocOutcomes ==
    { b \in [Members -> {"ok", "null"}] :
        Cardinality({w \in Members : b[w] = "null"}) <= 1 }

AfterReconcile(mismatch) == "nullcheck"

FirstStepAlloc ==
    /\ pc = "first"
    /\ alloc_local' = [w \in Members |->
           fftw_mpi_local_size_3d(shape_u_real[1], shape_u_real[2],
                                  shape_u_real[3], w).alloc_local]
    /\ local_n0' = [w \in Members |->
           fftw_mpi_local_size_3d(shape_u_real[1], shape_u_real[2],
                                  shape_u_real[3], w).local_n0]
    /\ \E bi \in AllocOutcomes, bo \in AllocOutcomes :
        /\ (\E w \in Members : bi[w] = "null") => (\A w \in Members : bo[w] = "ok")
        /\ in_buf' = bi
        /\ out_buf' = bo
    /\ log' = [log EXCEPT
                 !.allocAt = Append(@, step_num),
                 !.mismatch = {w \in Members :
                                  ReconcileMismatch(alloc_local'[w], shape_u_real)}]
    /\ pc' = AfterReconcile(log'.mismatch)
    /\ UNCHANGED <<env, ctrlVars, selVars, plan, x_dim, x_off, mem, ioVars>>

SomeBufferNull_OnlyIn == \E w \in Members : in_buf[w] = "null"

\* if ((NULL == in) or (NULL == out)) { ...; MPI_Abort(MPI_COMM_WORLD, err); }
SomeBufferNull == \E w \in Members : in_buf[w] = "null" \/ out_buf[w] = "null"

AllocAbort ==
    /\ pc = "nullcheck"
    /\ SomeBufferNull
    /\ pc' = "aborted"
    /\ log' = [log EXCEPT !.exit = "abort"]
    /\ UNCHANGED <<env, ctrlVars, selVars, fftVars, mem, ioVars>>

\* u_fft_real.reserve(alloc_local); ... (capacity only, the size stays 0)
Reserve ==
    /\ pc = "nullcheck"
    /\ ~SomeBufferNull
    /\ mem' = [mem EXCEPT !.fft_cap = alloc_local]
    /\ pc' = "plan"
    /\ UNCHANGED <<env, ctrlVars, selVars, fftVars, ioVars, log>>

\* plan = fftw_mpi_plan_dft_3d(..., in, out, MPI_COMM_WORLD, ...): collective
CreatePlan ==
    /\ pc = "plan"
    /\ WorldCollectiveCompletes
    /\ plan' = "created"
    /\ log' = [log EXCEPT !.planAt = Append(@, step_num)]
    /\ pc' = "scan"
    /\ UNCHANGED <<env, ctrlVars, selVars, alloc_local, local_n0, in_buf,
                   out_buf, x_dim, x_off, mem, ioVars>>

\* Lines 200-202
ScanOffsets ==
    /\ pc = "scan"
    /\ WorldCollectiveCompletes
    /\ x_dim' = [w \in Members |-> XDim(alloc_local[w], shape_u_real)]
    /\ x_off' = [w \in Members |-> XOff(x_dim', w)]
    /\ pc' = "define"
    /\ UNCHANGED <<env, ctrlVars, selVars, alloc_local, local_n0, in_buf,
                   out_buf, plan, mem, ioVars, log>>

\* Lines 205-221: the four transform outputs, flattened to one dimension
FftShape == <<shape_u_real[1] * shape_u_real[2] * shape_u_real[3]>>

FftStart(w) == <<x_off[w] * shape_u_real[2] * shape_u_real[3]>>

FftCount(w) == <<alloc_local[w]>>

\* Lines 223-240: the four passthrough variables
PassShape(n) == IF n \in {"u_real", "u_imag"} THEN shape_u_real ELSE shape_v_real

PassStart(n, w) == <<x_off[w], 0, 0>>

PassCount(n, w) == <<x_dim[w], shape_u_real[2], shape_u_real[3]>>

DefinedNames(fft_only) == IF fft_only THEN FftNames ELSE OutNames

DefineVariable(n) ==
    [defs  |-> writer_vars[n].defs + 1,
     shape |-> IF n \in FftNames THEN FftShape ELSE PassShape(n),
     start |-> [w \in Members |->
                   IF n \in FftNames THEN FftStart(w) ELSE PassStart(n, w)],
     count |-> [w \in Members |->
                   IF n \in FftNames THEN FftCount(w) ELSE PassCount(n, w)]]

FirstStepAfterDefine_StaysTrue == TRUE

\* firstStep = false;
FirstStepAfterDefine == FALSE

DefineOutputs ==
    /\ pc = "define"
    /\ writer_vars' = [n \in OutNames |->
                          IF n \in DefinedNames(output_fft_only)
                          THEN DefineVariable(n) ELSE writer_vars[n]]
    /\ firstStep' = FirstStepAfterDefine
    /\ log' = [log EXCEPT !.defineAt = Append(@, step_num)]
    /\ pc' = "read"
    /\ UNCHANGED <<env, step_num, read_status, output_fft_only, selVars,
                   fftVars, mem, reader, writer>>

(***************************************************************************)
(* Lines 259-266: read the four fields of the step and end the reader's    *)
(* step.  Get sizes each data vector to the selected block.                *)
(***************************************************************************)
Volume(c) == c[1] * c[2] * c[3]

ReadFields ==
    /\ pc = "read"
    /\ mem' = [mem EXCEPT
                 !.u_data = FieldTag("u", step_num),
                 !.v_data = FieldTag("v", step_num),
                 !.u_len = [w \in Members |-> Volume(counts_u[w])],
                 !.v_len = [w \in Members |-> Volume(counts_v[w])]]
    /\ log' = [log EXCEPT !.nGet = @ + 4]
    /\ pc' = "rend"
    /\ UNCHANGED <<env, ctrlVars, selVars, fftVars, ioVars>>

AfterReaderEndStep_Pipelined == "begin"

\* After reader_engine.EndStep() the same iteration goes on with the transforms
AfterReaderEndStep == "stage_u"

ReaderEndStep ==
    /\ pc = "rend"
    /\ reader' = "idle"
    /\ log' = [log EXCEPT !.nREnd = @ + 1]
    /\ pc' = AfterReaderEndStep
    /\ UNCHANGED <<env, ctrlVars, selVars, fftVars, mem, writer_vars, writer>>

(***************************************************************************)
(* Lines 268-316: stage in, execute the plan and stage out, for u and      *)
(* then for v.  The plan transforms the workspace `in` into `out`.         *)
(***************************************************************************)
\* One past the largest idx of the stage-in loops: i < x_dim, j < shape[1],
\* k < shape[2], idx = i*shape[1]*shape[2] + j*shape[2] + k.
StageInExtent(w) ==
    IF x_dim[w] = 0 \/ shape_u_real[2] = 0 \/ shape_u_real[3] = 0
    THEN 0
    ELSE (x_dim[w] - 1) * shape_u_real[2] * shape_u_real[3]
             + (shape_u_real[2] - 1) * shape_u_real[3]
             + (shape_u_real[3] - 1) + 1

\* The loops read data[idx] and write in[idx] without a check.
StageInOutOfRange(len) ==
    \E w \in Members : StageInExtent(w) > len[w] \/ StageInExtent(w) > alloc_local[w]

\* One past the largest index of the stage-out loops: i < alloc_local.
StageOutExtent(w) == alloc_local[w]

\* The loops write u_fft_real[i], ... through operator[] without a check;
\* the vectors were given capacity by reserve and never a size.
StageOutOutOfRange == \E w \in Members : StageOutExtent(w) > mem.fft_len[w]

\* An access outside a vector's elements is undefined: the run either goes
\* on with what the memory holds or the process dies.
Survives(outOfRange) == IF outOfRange THEN BOOLEAN ELSE {TRUE}

StageIn(from, len, at, to) ==
    /\ pc = at
    /\ mem' = [mem EXCEPT !.in = from]
    /\ \E survives \in Survives(StageInOutOfRange(len)) :
        /\ pc' = IF survives THEN to ELSE "crashed"
        /\ log' = [log EXCEPT !.nStageIn = @ + 1,
                              !.exit = IF survives THEN @ ELSE "crash"]
    /\ UNCHANGED <<env, ctrlVars, selVars, fftVars, ioVars>>

Execute(at, to) ==
    /\ pc = at
    /\ mem' = [mem EXCEPT !.out = Transformed(mem.in)]
    /\ log' = [log EXCEPT !.nExec = @ + 1]
    /\ pc' = to
    /\ UNCHANGED <<env, ctrlVars, selVars, fftVars, ioVars>>

StageOut(which, at, to) ==
    /\ pc = at
    /\ mem' = IF which = "u" THEN [mem EXCEPT !.u_fft = mem.out]
                             ELSE [mem EXCEPT !.v_fft = mem.out]
    /\ \E survives \in Survives(StageOutOutOfRange) :
        /\ pc' = IF survives THEN to ELSE "crashed"
        /\ log' = [log EXCEPT !.nStageOut = @ + 1,
                              !.exit = IF survives THEN @ ELSE "crash"]
    /\ UNCHANGED <<env, ctrlVars, selVars, fftVars, ioVars>>

StageInU_FromV == StageIn(mem.v_data, mem.v_len, "stage_u", "exec_u")

StageInU == StageIn(mem.u_data, mem.u_len, "stage_u", "exec_u")

ExecuteU == Execute("exec_u", "out_u")

StageOutU == StageOut("u", "out_u", "stage_v")

StageInV == StageIn(mem.v_data, mem.v_len, "stage_v", "exec_v")

ExecuteV == Execute("exec_v", "out_v")

StageOutV == StageOut("v", "out_v", "wbegin")

(***************************************************************************)
(* Lines 318-330: the writer's step.                                       *)
(***************************************************************************)
WriterBeginStep ==
    /\ pc = "wbegin"
    /\ writer' = "active"
    /\ log' = [log EXCEPT !.nWBegin = @ + 1, !.puts = {}]
    /\ pc' = "put"
    /\ UNCHANGED <<env, ctrlVars, selVars, fftVars, mem, writer_vars, reader>>

PutNames_IgnoreFlag(fft_only) == FftNames \cup PassNames

\* The four transform outputs, and the four originals if (!output_fft_only)
PutNames(fft_only) == IF fft_only THEN FftNames ELSE FftNames \cup PassNames

AfterPut_NoEndStep == "begin"

\* The puts are followed by writer_engine.EndStep()
AfterPut == "wend"

PutAll ==
    /\ pc = "put"
    /\ log' = [log EXCEPT !.puts = @ \cup PutNames(output_fft_only)]
    /\ pc' = AfterPut
    /\ UNCHANGED <<env, ctrlVars, selVars, fftVars, mem, ioVars>>

AfterWriterEndStep == "begin"

WriterEndStep ==
    /\ pc = "wend"
    /\ writer' = "idle"
    /\ log' = [log EXCEPT !.nWEnd = @ + 1, !.stepPuts = Append(@, log.puts),
                          !.wsteps = Append(@, step_num)]
    /\ pc' = AfterWriterEndStep
    /\ UNCHANGED <<env, ctrlVars, selVars, fftVars, mem, writer_vars, reader>>

(***************************************************************************)
(* Lines 333-343: shutdown.                                                *)
(***************************************************************************)
CloseStreams ==
    /\ pc = "close"
    /\ reader' = "closed"
    /\ writer' = "closed"
    /\ pc' = "free"
    /\ UNCHANGED <<env, ctrlVars, selVars, fftVars, mem, writer_vars, log>>

\* fftw_free(in); fftw_free(out); fftw_destroy_plan(plan).  When no step was
\* begun the three locals were never assigned: the calls receive
\* indeterminate pointers, and the process either survives them or dies.
NeverAssigned ==
    \/ plan = "uninit"
    \/ \E w \in Members : in_buf[w] = "uninit" \/ out_buf[w] = "uninit"

FreeFFTW ==
    /\ pc = "free"
    /\ in_buf' = [w \in Members |-> IF in_buf[w] = "ok" THEN "freed" ELSE in_buf[w]]
    /\ out_buf' = [w \in Members |-> IF out_buf[w] = "ok" THEN "freed" ELSE out_buf[w]]
    /\ plan' = IF plan = "created" THEN "destroyed" ELSE plan
    /\ \E survives \in (IF NeverAssigned THEN BOOLEAN ELSE {TRUE}) :
        /\ pc' = IF survives THEN "finalize" ELSE "crashed"
        /\ log' = [log EXCEPT !.freed = @ + 1,
                              !.exit = IF survives THEN @ ELSE "crash"]
    /\ UNCHANGED <<env, ctrlVars, selVars, alloc_local, local_n0, x_dim, x_off,
                   mem, ioVars>>

\* MPI_Finalize(); return 0;
Finalize ==
    /\ pc = "finalize"
    /\ pc' = "done"
    /\ log' = [log EXCEPT !.exit = "normal"]
    /\ UNCHANGED <<env, ctrlVars, selVars, fftVars, mem, ioVars>>

Next ==
    \/ UsageAbort
    \/ Setup
    \/ ReaderBeginStep
    \/ Backoff
    \/ Break
    \/ AdvanceStep
    \/ InquireAndSelect
    \/ FirstStepAlloc
    \/ AllocAbort
    \/ Reserve
    \/ CreatePlan
    \/ ScanOffsets
    \/ DefineOutputs
    \/ ReadFields
    \/ ReaderEndStep
    \/ StageInU
    \/ ExecuteU
    \/ StageOutU
    \/ StageInV
    \/ ExecuteV
    \/ StageOutV
    \/ WriterBeginStep
    \/ PutAll
    \/ WriterEndStep
    \/ CloseStreams
    \/ FreeFFTW
    \/ Finalize

Spec == Init /\ [][Next]_vars

SpecGeom == InitGeom /\ [][Next]_vars

(***************************************************************************)
(*                              Properties                                 *)
(***************************************************************************)
StreamEnded == read_status \in {"EndOfStream", "OtherError"}

OkPending == pc = "status" /\ read_status = "OK"

NotReadyPending == pc = "status" /\ read_status = "NotReady"

\* Everything of steps 1..n has been done, and nothing of a later step.
StepsComplete(n) ==
    /\ log.nGet = 4 * n
    /\ log.nREnd = n
    /\ log.nStageIn = 2 * n
    /\ log.nExec = 2 * n
    /\ log.nStageOut = 2 * n
    /\ log.nWBegin = n
    /\ log.nWEnd = n
    /\ Len(log.stepPuts) = n

\* C1: the step counter starts at 0 and is incremented by exactly 1 on each
\* BeginStep that returned OK and on nothing else, so the steps processed are
\* numbered 1, 2, 3, ... with no number skipped or repeated.
C1_StepsNumberedInOrder ==
    /\ \A i \in 1 .. Len(log.steps) : log.steps[i] = i
    /\ step_num = Len(log.steps)
    /\ step_num = log.nOK - (IF OkPending THEN 1 ELSE 0)

C1_Witness ==
    /\ log.steps = <<1, 2>>
    /\ log.nNotReady = 1
    /\ pc = "begin"

\* C2: after a NotReady result the driver does nothing but one backoff sleep
\* and then issues the next BeginStep: the step counter, the data and both
\* engines are left alone, and every NotReady result so far has been slept
\* on before anything else happens.
C2_NotReadyStep ==
    NotReadyPending =>
        /\ pc' = "begin"
        /\ log' = [log EXCEPT !.sleeps = @ + 1]
        /\ UNCHANGED <<ctrlVars, selVars, fftVars, mem, ioVars>>

C2_SleepsOwed ==
    log.sleeps = log.nNotReady - (IF NotReadyPending THEN 1 ELSE 0)

C2_NotReadyBacksOff == [](C2_SleepsOwed) /\ [][C2_NotReadyStep]_vars

C2_Witness ==
    /\ log.nNotReady = 2
    /\ log.sleeps = 2
    /\ log.steps = <<1>>
    /\ pc = "read"

\* C3: once the stream has returned a terminal status after k OK steps, the
\* pipeline has written exactly k complete output steps, issues no further
\* reader BeginStep or read, closes both streams and terminates normally,
\* without an abort.
C3_TerminalStatusEndsCleanly ==
    StreamEnded =>
        /\ pc \in {"status", "close", "free", "finalize", "done"}
        /\ StepsComplete(log.nOK)
        /\ log.exit \in {"none", "normal"}
        /\ pc \in {"free", "finalize", "done"} =>
               reader = "closed" /\ writer = "closed"
        /\ pc = "done" => log.exit = "normal"

\* C4: everything of step N, through the writer's EndStep, is complete when
\* the reader's BeginStep for step N+1 is issued; at most one step is in
\* flight at any point of the run.
C4_OneStepInFlight ==
    /\ pc \in {"begin", "status"} => StepsComplete(step_num)
    /\ log.nOK - log.nWEnd \in {0, 1}
    /\ log.nGet <= 4 * log.nOK

C4_Witness ==
    /\ OkPending
    /\ step_num = 1
    /\ StepsComplete(1)

\* C5: when the reconciliation check fails on the first step, no plan is
\* built, no output variable is defined and no step is transformed or
\* written: the failure is fatal.
C5_MismatchIsFatal ==
    log.mismatch # {} =>
        /\ log.planAt = <<>>
        /\ \A n \in OutNames : writer_vars[n].defs = 0
        /\ log.nExec = 0
        /\ log.nWEnd = 0

\* C6: a passthrough variable is defined with the start and count of this
\* rank's read selection, so its declared extent is the number of elements
\* read for it.
ReadStart(n, w) == IF n \in {"u_real", "u_imag"} THEN starts_u[w] ELSE starts_v[w]

ReadCount(n, w) == IF n \in {"u_real", "u_imag"} THEN counts_u[w] ELSE counts_v[w]

C6_PassthroughMirrorsReadSlab ==
    \A n \in PassNames : writer_vars[n].defs > 0 =>
        \A w \in Members :
            /\ writer_vars[n].start[w] = ReadStart(n, w)
            /\ writer_vars[n].count[w] = ReadCount(n, w)

\* C7: x_off on a rank is the sum of x_dim over the lower-numbered ranks of
\* the pipeline's own process group.
SubgroupPrefix(w) ==
    SumTo([v \in WorldRanks |-> IF v \in Members THEN x_dim[v] ELSE 0], w - 1)

C7_OffsetIsSubgroupPrefixSum ==
    (pc = "define" \/ ~firstStep) =>
        \A w \in Members : x_off[w] = SubgroupPrefix(w)

\* C8: for each transform-output variable the intervals [offset, offset +
\* extent) of the ranks are pairwise disjoint and their union is exactly
\* [0, d0*d1*d2).
Interval(n, w) ==
    writer_vars[n].start[w][1] ..
        (writer_vars[n].start[w][1] + writer_vars[n].count[w][1] - 1)

C8_FftSlabsTile ==
    \A n \in FftNames : writer_vars[n].defs > 0 =>
        /\ \A w \in Members : \A v \in Members :
               w # v => Interval(n, w) \cap Interval(n, v) = {}
        /\ UNION {Interval(n, w) : w \in Members}
               = 0 .. (writer_vars[n].shape[1] - 1)

\* C9: every output step puts exactly 4 variables when the third argument
\* is absent and exactly 8 when it is "0", the same number on every step,
\* and only variables that were defined on the first step.
C9_PutsPerStep ==
    /\ \A i \in 1 .. Len(log.stepPuts) :
        /\ env.argc < 4 => Cardinality(log.stepPuts[i]) = 4
        /\ (env.argc >= 4 /\ env.argv3 = "0") => Cardinality(log.stepPuts[i]) = 8
        /\ Cardinality(log.stepPuts[i]) = Cardinality(log.stepPuts[1])
        /\ \A n \in log.stepPuts[i] : writer_vars[n].defs = 1
    /\ \A n \in log.puts : writer_vars[n].defs = 1

C9_Witness ==
    /\ Len(log.stepPuts) = 2
    /\ env.argv3 = "0"
    /\ Cardinality(log.stepPuts[2]) = 8

\* C10: the workspace allocation, the plan creation and the definition of
\* each output variable happen exactly once, on the first OK step and
\* before that step's data is read; no later step repeats them.
FirstStepBlockDone ==
    /\ log.allocAt = <<1>>
    /\ log.planAt = <<1>>
    /\ log.defineAt = <<1>>
    /\ \A n \in DefinedNames(output_fft_only) : writer_vars[n].defs = 1

C10_FirstStepOnce ==
    /\ log.allocAt \in {<<>>, <<1>>}
    /\ log.planAt \in {<<>>, <<1>>}
    /\ log.defineAt \in {<<>>, <<1>>}
    /\ \A n \in OutNames : writer_vars[n].defs <= 1
    /\ log.nGet > 0 => FirstStepBlockDone
    /\ step_num >= 2 => FirstStepBlockDone

C10_Witness ==
    /\ log.nNotReady >= 1
    /\ step_num = 2
    /\ pc = "wend"
    /\ FirstStepBlockDone

\* C11: if a workspace allocation fails on the first step the group is
\* aborted before the plan is built, before any output variable is defined
\* and before any element of either buffer is read or written.
C11_NullBufferAborts ==
    (\E w \in Members : in_buf[w] = "null" \/ out_buf[w] = "null") =>
        /\ pc \in {"nullcheck", "aborted"}
        /\ plan = "uninit"
        /\ log.planAt = <<>>
        /\ \A n \in OutNames : writer_vars[n].defs = 0
        /\ log.nStageIn = 0 /\ log.nExec = 0 /\ log.nStageOut = 0
        /\ mem.in = NoTag /\ mem.out = NoTag

C11_Witness ==
    /\ pc = "aborted"
    /\ \E w \in Members : out_buf[w] = "null"
    /\ log.nNotReady = 1

\* C12: the slabs the Decomposition Calculator returns along dimension 0
\* have counts that sum to d0, starts that are the exclusive prefix sum of
\* the counts in rank order, and counts that differ by at most 1; the u and
\* the v family get identical slabs when their shapes are equal.
MemberSum(f, w) ==
    SumTo([v \in WorldRanks |-> IF v \in Members THEN f[v] ELSE 0], w)

Rows(c) == [w \in Members |-> c[w][1]]

C13_ReaderStep ==
    /\ log'.nGet # log.nGet => (reader = "active" /\ read_status = "OK")
    /\ log'.nREnd # log.nREnd =>
           /\ reader = "active" /\ read_status = "OK"
           /\ log'.nREnd = log.nREnd + 1
           /\ log'.nREnd = log.nOK
    /\ StreamEnded =>
           /\ log'.nBegin = log.nBegin
           /\ log'.nGet = log.nGet
           /\ log'.nREnd = log.nREnd
           /\ reader' \in {reader, "closed"}

C13_ReaderState ==
    /\ log.nOK - log.nREnd \in {0, 1}
    /\ pc = "begin" => log.nREnd = log.nOK
    /\ reader = "closed" => (StreamEnded /\ log.nREnd = log.nOK)

C13_ReaderProtocol == [](C13_ReaderState) /\ [][C13_ReaderStep]_vars

C13_Witness ==
    /\ reader = "closed"
    /\ log.nREnd = 2
    /\ log.nGet = 8
    /\ log.nNotReady = 1

\* C14: every Put is issued inside a writer step, every writer BeginStep is
\* followed by exactly one EndStep before the next BeginStep or Close, and
\* at shutdown the writer has completed one step per OK reader step, in the
\* same order.
C14_WriterStep ==
    /\ log'.puts # log.puts =>
           (log'.nWBegin # log.nWBegin \/ writer = "active")
    /\ log'.nWBegin # log.nWBegin => (writer = "idle" /\ writer' = "active")
    /\ log'.nWEnd # log.nWEnd => (writer = "active" /\ writer' = "idle")
    /\ (writer' = "closed" /\ writer # "closed") => writer = "idle"

C14_WriterState ==
    /\ log.nWBegin - log.nWEnd \in {0, 1}
    /\ (writer = "active") <=> (log.nWBegin = log.nWEnd + 1)
    /\ writer = "closed" => (log.nWEnd = log.nOK /\ log.wsteps = log.steps)

C14_WriterProtocol == [](C14_WriterState) /\ [][C14_WriterStep]_vars

C14_Witness ==
    /\ writer = "closed"
    /\ log.wsteps = <<1, 2>>
    /\ log.nNotReady = 1

\* C15: within a step the plan is executed twice, for u and then for v, and
\* the u results are copied out of the output workspace before the v
\* stage-in and the second execution; what is written as u_fft is the
\* transform of the step's u fields, and as v_fft of its v fields.
FftOf(f) == [family |-> f, step |-> step_num, form |-> "fft"]

C15_TransformOrder ==
    /\ pc = "out_u" =>
           (mem.out = FftOf("u") /\ log.nExec = 2 * step_num - 1)
    /\ pc \in {"stage_v", "exec_v", "out_v"} => mem.u_fft = FftOf("u")
    /\ pc = "exec_v" => (mem.in = FieldTag("v", step_num)
                           /\ log.nExec = 2 * step_num - 1)
    /\ pc \in {"wbegin", "put", "wend"} =>
           /\ mem.u_fft = FftOf("u")
           /\ mem.v_fft = FftOf("v")
           /\ log.nExec = 2 * step_num

C15_Witness ==
    /\ pc = "wend"
    /\ step_num = 2
    /\ mem.u_fft = FftOf("u")

\* C16: NotReady never ends the run: whatever the number of NotReady results
\* so far the driver goes back to BeginStep and issues it, and every step
\* that returned OK, before or after them, has been processed and written
\* when the next BeginStep is issued.
C16_RetryStep ==
    /\ NotReadyPending => (pc' = "begin" /\ log'.exit = "none")
    /\ pc = "begin" => (pc' = "status" /\ log'.nBegin = log.nBegin + 1)

C16_RetryState ==
    /\ read_status = "NotReady" => (pc \in {"status", "begin"} /\ log.exit = "none")
    /\ pc = "begin" =>
           /\ ENABLED ReaderBeginStep
           /\ StepsComplete(log.nOK)
           /\ log.wsteps = log.steps

C16_NotReadyRetried == [](C16_RetryState) /\ [][C16_RetryStep]_vars

C16_Witness ==
    /\ log.nNotReady = 2
    /\ log.sleeps = 2
    /\ log.wsteps = <<1>>
    /\ pc = "begin"

\* C17: at shutdown only buffers that were allocated are freed and only a
\* plan that was created is destroyed.
C17_FreesOnlyWhatExists ==
    log.freed > 0 =>
        /\ plan = "destroyed"
        /\ \A w \in Members : in_buf[w] = "freed" /\ out_buf[w] = "freed"

\* C18: the reconciliation check reports no mismatch on a rank whose row
\* count from the transform library equals its count from the Decomposition
\* Calculator.
C18_MismatchOnlyOnDisagreement ==
    log.allocAt # <<>> =>
        \A w \in Members :
            local_n0[w] = counts_u[w][1] => w \notin log.mismatch

\* C19: whenever x_dim, the transform library's row count, and the
\* Decomposition Calculator's counts are both decompositions of d0 over the
\* group, every index the stage-in loops read
\* is below the number of elements read for the field, and every index
\* written is below the workspace allocation size.
BothDecomposeDim0 ==
    /\ \A w \in Members : x_dim[w] = local_n0[w]
    /\ MemberSum(x_dim, env.world_size - 1) = shape_u_real[1]
    /\ MemberSum(Rows(counts_u), env.world_size - 1) = shape_u_real[1]
    /\ \A w \in Members : x_off[w] = MemberSum(x_dim, w - 1)

C19_StageInWithinData ==
    (log.nStageIn > 0 /\ BothDecomposeDim0) =>
        \A w \in Members :
            /\ StageInExtent(w) <= mem.u_len[w]
            /\ StageInExtent(w) <= mem.v_len[w]
            /\ StageInExtent(w) <= alloc_local[w]

\* C20: every index the stage-out loops write is below the output field's
\* current length, and the length of each output field when it is put equals
\* the extent its variable was defined with.
C20_StageOutWithinLength ==
    log.nStageOut > 0 =>
        \A w \in Members :
            /\ StageOutExtent(w) <= mem.fft_len[w]
            /\ \A n \in FftNames :
                   log.puts # {} => mem.fft_len[w] = writer_vars[n].count[w][1]

====
